---- MODULE Spec2Model ----
(***************************************************************************)
(* Model of the "Event Listing via RSS" component                          *)
(* (src/_resources20/js/modules/EventListingViaRss.ts) together with the   *)
(* error sink it reports to (src/_resources20/js/modules/ErrorReporting.ts)*)
(*                                                                         *)
(* Representation of values                                                *)
(*  - null / undefined / "no such element" is the empty sequence Null; a   *)
(*    present value x is the one-element sequence Some(x).                 *)
(*  - free text (attribute values, descriptions, URLs) is a sequence of    *)
(*    one-character strings.                                               *)
(*  - a timestamp text "YYYY-MM-DD" is the sequence <<y, m, d>> and        *)
(*    "YYYY-MM-DDTHH:MM" is <<y, m, d, h, mi>>: every field is zero-padded *)
(*    and of fixed width, so the code-unit order of the text is the        *)
(*    lexicographic order of its fields, and a text that is a proper       *)
(*    prefix of another one sorts before it.                               *)
(*  - a number is a record: NaN, a finite value, or one of the two         *)
(*    Number.*_SAFE_INTEGER sentinels, which lie outside the range of      *)
(*    every instant a Date can hold.                                       *)
(*  - an instant is counted in minutes since 1970-01-01T00:00Z (the texts  *)
(*    carry no seconds).                                                   *)
(***************************************************************************)
EXTENDS Integers, Sequences, FiniteSets, TLC

VARIABLES
    tz,             \* host time zone: minutes east of UTC (local = UTC + tz)
    bugsnagLoaded,  \* whether ErrorReporting.ts managed to load the Bugsnag script
    elements,       \* the .event-listing-via-rss elements: their data-* attributes
    responses,      \* what the network answers to the fetch of each element
    pc,             \* position of main(): start, awaitFetch, awaitText, rejected, resolved, unhandled
    idx,            \* index of the element the for-loop is at
    fullUrl,        \* the URL requested for the current element
    innerHTML,      \* the content of every element
    events,         \* the events getEvents returned for each element (Null before)
    errorLog,       \* the messages received by the error sink (Bugsnag.notify)
    rejection       \* the reason main()'s promise chain ended with (Null if none)

vars == <<tz, bugsnagLoaded, elements, responses, pc, idx, fullUrl, innerHTML,
          events, errorLog, rejection>>

Null == <<>>

Some(x) == <<x>>

\* F of the value of e: e is evaluated once, however often F uses it
With(e, F(_)) == CHOOSE r \in {F(v) : v \in {e}} : TRUE

-----------------------------------------------------------------------------
(* Numbers and instants *)

NaN == [kind |-> "nan", v |-> 0]

Fin(n) == [kind |-> "fin", v |-> n]

MIN_SAFE_INTEGER == [kind |-> "min", v |-> 0]

MAX_SAFE_INTEGER == [kind |-> "max", v |-> 0]

\* a <= b on numbers: every comparison with NaN is false
NumLeq(a, b) ==
    /\ a.kind # "nan"
    /\ b.kind # "nan"
    /\ \/ a.kind = "min"
       \/ b.kind = "max"
       \/ (a.kind = "fin" /\ b.kind = "fin" /\ a.v <= b.v)

IsLeap(y) == (y % 4 = 0 /\ y % 100 # 0) \/ y % 400 = 0

DaysInMonth(y, m) ==
    IF m = 2 THEN (IF IsLeap(y) THEN 29 ELSE 28)
    ELSE IF m \in {4, 6, 9, 11} THEN 30 ELSE 31

\* days from 1970-01-01 to the civil date y-m-d (proleptic Gregorian)
DaysFromCivil(y, m, d) ==
    LET yy  == IF m <= 2 THEN y - 1 ELSE y
        era == yy \div 400
        yoe == yy - era * 400
        mp  == IF m > 2 THEN m - 3 ELSE m + 9
        doy == (153 * mp + 2) \div 5 + d - 1
        doe == yoe * 365 + yoe \div 4 - yoe \div 100 + doy
    IN  era * 146097 + doe - 719468

\* the civil date <<y, m, d>> of a day number
CivilFromDays(z) ==
    With(z + 719468, LAMBDA zz :
        LET era == zz \div 146097
            doe == zz - era * 146097
            yoe == (doe - doe \div 1460 + doe \div 36524 - doe \div 146096) \div 365
            doy == doe - (365 * yoe + yoe \div 4 - yoe \div 100)
            mp  == (5 * doy + 2) \div 153
            d   == doy - (153 * mp + 2) \div 5 + 1
            m   == IF mp < 10 THEN mp + 3 ELSE mp - 9
            y   == yoe + era * 400
        IN  <<IF m <= 2 THEN y + 1 ELSE y, m, d>>)

\* the text is one of the two ISO forms and names an existing date and time
IsValidText(text) ==
    /\ Len(text) \in {3, 5}
    /\ text[1] \in 1970..9999
    /\ text[2] \in 1..12
    /\ text[3] \in 1..DaysInMonth(text[1], text[2])
    /\ Len(text) = 5 => (text[4] \in 0..23 /\ text[5] \in 0..59)

\* Date.parse: a date-only text is UTC midnight, a date-time text without
\* offset is local time, anything else is NaN
DateParse(text) ==
    With(text, LAMBDA t :
        IF ~IsValidText(t) THEN NaN
        ELSE IF Len(t) = 3
             THEN Fin(DaysFromCivil(t[1], t[2], t[3]) * 1440)
             ELSE Fin(DaysFromCivil(t[1], t[2], t[3]) * 1440 + t[4] * 60 + t[5] - tz))

\* text.indexOf('T') !== -1
HasT(text) == Len(text) > 3

\* LocalFields reading the fields in UTC instead of local time
LocalFields_utc(instant) ==
    With(instant.v, LAMBDA utc :
        LET day   == utc \div 1440
            civil == CivilFromDays(day)
            mod   == utc - day * 1440
        IN  [year |-> civil[1], month |-> civil[2], day |-> civil[3],
             hour |-> mod \div 60, minute |-> mod % 60])

\* the local calendar fields of an instant, as toLocaleString sees them
LocalFields(instant) ==
    With(instant.v + tz, LAMBDA local :
        LET day   == local \div 1440
            civil == CivilFromDays(day)
            mod   == local - day * 1440
        IN  [year |-> civil[1], month |-> civil[2], day |-> civil[3],
             hour |-> mod \div 60, minute |-> mod % 60])

-----------------------------------------------------------------------------
(* Text helpers: the String methods and regular expressions the code uses *)

\* the white space String.prototype.trim and parseInt skip
IsWhite(c) == c \in {" ", "\t", "\n"}

RECURSIVE TrimStart(_)
TrimStart(s) ==
    With(s, LAMBDA t :
        IF t # <<>> /\ IsWhite(t[1]) THEN TrimStart(Tail(t)) ELSE t)

RECURSIVE TrimEnd(_)
TrimEnd(s) ==
    With(s, LAMBDA t :
        IF t # <<>> /\ IsWhite(t[Len(t)]) THEN TrimEnd(SubSeq(t, 1, Len(t) - 1)) ELSE t)

\* s.trim()
Trim(s) == TrimEnd(TrimStart(s))

\* s.replaceAll(' ', '+')
SpacesToPlus(s) == [i \in 1..Len(s) |-> IF s[i] = " " THEN "+" ELSE s[i]]

\* the number of leading ' ' characters of s
RECURSIVE LeadingSpaces(_)
LeadingSpaces(s) ==
    With(s, LAMBDA t :
        IF t # <<>> /\ t[1] = " " THEN 1 + LeadingSpaces(Tail(t)) ELSE 0)

\* s.replaceAll(/ *, */g, ","): every comma swallows the spaces around it
RECURSIVE NormalizeCommas(_)
NormalizeCommas(s) ==
    With(s, LAMBDA t :
        IF t = <<>> THEN <<>>
        ELSE With(LeadingSpaces(t), LAMBDA k :
                 IF k < Len(t) /\ t[k + 1] = ","
                 THEN With(SubSeq(t, k + 2, Len(t)), LAMBDA rest :
                          <<",">> \o NormalizeCommas(
                              SubSeq(rest, LeadingSpaces(rest) + 1, Len(rest))))
                 ELSE <<t[1]>> \o NormalizeCommas(Tail(t))))

\* s.split(','): the terms between the commas (one empty term for "")
RECURSIVE Split(_)
Split(s) ==
    With(s, LAMBDA t :
        IF \A i \in 1..Len(t) : t[i] # ","
        THEN <<t>>
        ELSE LET c == CHOOSE i \in 1..Len(t) :
                          t[i] = "," /\ \A j \in 1..(i - 1) : t[j] # ","
             IN  <<SubSeq(t, 1, c - 1)>> \o Split(SubSeq(t, c + 1, Len(t))))

\* the value of a digit character, -1 for any other character
DigitValue(c) ==
    CASE c = "0" -> 0 [] c = "1" -> 1 [] c = "2" -> 2 [] c = "3" -> 3
      [] c = "4" -> 4 [] c = "5" -> 5 [] c = "6" -> 6 [] c = "7" -> 7
      [] c = "8" -> 8 [] c = "9" -> 9
      [] c \in {"a", "A"} -> 10 [] c \in {"b", "B"} -> 11
      [] c \in {"c", "C"} -> 12 [] c \in {"d", "D"} -> 13
      [] c \in {"e", "E"} -> 14 [] c \in {"f", "F"} -> 15
      [] OTHER -> -1

IsDigit(c, radix) == DigitValue(c) >= 0 /\ DigitValue(c) < radix

\* the value of the longest prefix of digits of s, continuing from acc
RECURSIVE DigitsValue(_, _, _)
DigitsValue(s, radix, acc) ==
    With(<<s, acc>>, LAMBDA v :
        IF v[1] # <<>> /\ IsDigit(v[1][1], radix)
        THEN DigitsValue(Tail(v[1]), radix, v[2] * radix + DigitValue(v[1][1]))
        ELSE v[2])

\* parseInt(s): leading white space, an optional sign, an optional 0x prefix,
\* then the longest run of digits; NaN when there is no digit
ParseInt(s) ==
    With(TrimStart(s), LAMBDA t :
        LET signed == t # <<>> /\ t[1] \in {"+", "-"}
            sign   == IF t # <<>> /\ t[1] = "-" THEN -1 ELSE 1
            u      == IF signed THEN Tail(t) ELSE t
            hex    == Len(u) >= 2 /\ u[1] = "0" /\ u[2] \in {"x", "X"}
            radix  == IF hex THEN 16 ELSE 10
            w      == IF hex THEN SubSeq(u, 3, Len(u)) ELSE u
        IN  IF w = <<>> \/ ~IsDigit(w[1], radix)
            THEN NaN
            ELSE Fin(sign * DigitsValue(w, radix, 0)))

\* html.replace(/<[\s\S]+?>/g, " "): a '<', at least one character, and the
\* nearest '>' after it become one space
RECURSIVE ReplaceTags(_)
ReplaceTags(s) ==
    With(s, LAMBDA t :
        IF t = <<>> THEN <<>>
        ELSE IF t[1] = "<" /\ \E j \in 3..Len(t) : t[j] = ">"
             THEN LET j == CHOOSE k \in 3..Len(t) :
                               t[k] = ">" /\ \A l \in 3..(k - 1) : t[l] # ">"
                  IN  <<" ">> \o ReplaceTags(SubSeq(t, j + 1, Len(t)))
             ELSE <<t[1]>> \o ReplaceTags(Tail(t)))

\* s.replace(/  +/g, " "): a run of two or more ' ' becomes one
RECURSIVE CollapseSpaces(_)
CollapseSpaces(s) ==
    With(s, LAMBDA t :
        With(LeadingSpaces(t), LAMBDA k :
            IF t = <<>> THEN <<>>
            ELSE IF k >= 2
                 THEN <<" ">> \o CollapseSpaces(SubSeq(t, k + 1, Len(t)))
                 ELSE <<t[1]>> \o CollapseSpaces(Tail(t))))

\* removeTags without the final trim
removeTags_noTrim(html) ==
    IF html = Null THEN <<>>
    ELSE CollapseSpaces(ReplaceTags(html[1]))

\* removeTags(html), html an optional text
removeTags(html) ==
    IF html = Null THEN <<>>
    ELSE Trim(CollapseSpaces(ReplaceTags(html[1])))

\* isNullOrEmpty(value), value an optional text
isNullOrEmpty(value) == value = Null \/ Trim(value[1]) = <<>>

-----------------------------------------------------------------------------
(* The functions of EventListingViaRss.ts *)

CALENDAR_RSS_URL ==
    <<"https://api.calendar.moderncampus.net/pubcalendar/6c766263-8719-4764-a0df-af488b8d5bbe/rss?url=https%3A%2F%2Fwww.ferris.edu%2Fcalendar%2Fhomepage.htm&hash=true&end=2099-12-31">>

\* getDataAttr on the two timestamp attributes: isNullOrEmpty of a timestamp text
isNullOrEmptyStamp(value) == value = Null \/ Len(value[1]) = 0

\* getDataAttr(element): blank attributes become null
getDataAttr(element) ==
    [begin      |-> IF isNullOrEmptyStamp(element.begin) THEN Null ELSE element.begin,
     end        |-> IF isNullOrEmptyStamp(element.end) THEN Null ELSE element.end,
     count      |-> IF isNullOrEmpty(element.count) THEN Null ELSE element.count,
     tags       |-> IF isNullOrEmpty(element.tags) THEN Null ELSE element.tags,
     categories |-> IF isNullOrEmpty(element.categories) THEN Null ELSE element.categories,
     showYear   |-> IF isNullOrEmpty(element.showYear) THEN Null ELSE element.showYear]

\* newUrl += "&tag=" + term, for every term
RECURSIVE AppendTerms(_, _)
AppendTerms(newUrl, terms) ==
    With(<<newUrl, terms>>, LAMBDA v :
        IF v[2] = <<>> THEN v[1]
        ELSE AppendTerms(v[1] \o <<"&", "t", "a", "g", "=">> \o v[2][1], Tail(v[2])))

\* appendToUrl(url, tags, categories)
appendToUrl(url, tags, categories) ==
    LET withTags ==
            IF tags # Null
            THEN AppendTerms(url, Split(SpacesToPlus(tags[1])))
            ELSE url
    IN  IF categories # Null
        THEN AppendTerms(withTags,
                 Split(SpacesToPlus(NormalizeCommas(Trim(categories[1])))))
        ELSE withTags

\* eventWithinDateRange with the test written as "not after": an unparseable
\* text passes it
eventWithinDateRange_notAfter(eventStart, eventEnd, beginDateRange, endDateRange) ==
    IF eventStart = Null \/ eventEnd = Null THEN FALSE
    ELSE LET eventStartStr == IF ~HasT(eventStart[1])
                              THEN eventStart[1] \o <<0, 0>> ELSE eventStart[1]
             eventEndStr   == IF ~HasT(eventEnd[1])
                              THEN eventEnd[1] \o <<23, 59>> ELSE eventEnd[1]
         IN  With(<<DateParse(eventStartStr), DateParse(eventEndStr),
                    IF beginDateRange # Null
                    THEN DateParse(beginDateRange[1]) ELSE MIN_SAFE_INTEGER,
                    IF endDateRange # Null
                    THEN DateParse(endDateRange[1]) ELSE MAX_SAFE_INTEGER>>,
                  LAMBDA num :
             /\ ~(NumLeq(num[4], num[1]) /\ num[4] # num[1])
             /\ ~(NumLeq(num[2], num[3]) /\ num[2] # num[3]))

\* eventWithinDateRange(eventStart, eventEnd, beginDateRange, endDateRange)
eventWithinDateRange(eventStart, eventEnd, beginDateRange, endDateRange) ==
    IF eventStart = Null \/ eventEnd = Null THEN FALSE
    ELSE LET eventStartStr == IF ~HasT(eventStart[1])
                              THEN eventStart[1] \o <<0, 0>> ELSE eventStart[1]
             eventEndStr   == IF ~HasT(eventEnd[1])
                              THEN eventEnd[1] \o <<23, 59>> ELSE eventEnd[1]
         IN  With(<<DateParse(eventStartStr), DateParse(eventEndStr),
                    IF beginDateRange # Null
                    THEN DateParse(beginDateRange[1]) ELSE MIN_SAFE_INTEGER,
                    IF endDateRange # Null
                    THEN DateParse(endDateRange[1]) ELSE MAX_SAFE_INTEGER>>,
                  LAMBDA num :
             LET eventStartNum     == num[1]
                 eventEndNum       == num[2]
                 beginDateRangeNum == num[3]
                 endDateRangeNum   == num[4]
             IN  /\ NumLeq(eventStartNum, endDateRangeNum)
                 /\ NumLeq(beginDateRangeNum, eventEndNum))

\* the LogError calls eventWithinDateRange makes for one item
rangeErrors(eventStart, eventEnd) ==
    IF eventStart = Null \/ eventEnd = Null
    THEN <<"Event start or end is null">> ELSE <<>>

\* a < b on strings (code-unit order), on the field sequence of a timestamp text
RECURSIVE StrLess(_, _)
StrLess(a, b) ==
    IF b = <<>> THEN FALSE
    ELSE IF a = <<>> THEN TRUE
    ELSE IF a[1] < b[1] THEN TRUE
    ELSE IF a[1] > b[1] THEN FALSE
    ELSE StrLess(Tail(a), Tail(b))

\* compareEvents with the two results exchanged: a descending order
compareEvents_descending(a, b) ==
    IF a.start = Null /\ b.start = Null THEN 0
    ELSE IF a.start = Null THEN -1
    ELSE IF b.start = Null THEN 1
    ELSE IF StrLess(a.start[1], b.start[1]) THEN 1
    ELSE IF StrLess(b.start[1], a.start[1]) THEN -1
    ELSE 0

\* the comparator getEvents sorts with
compareEvents(a, b) ==
    IF a.start = Null /\ b.start = Null THEN 0
    ELSE IF a.start = Null THEN -1
    ELSE IF b.start = Null THEN 1
    ELSE IF StrLess(a.start[1], b.start[1]) THEN -1
    ELSE IF StrLess(b.start[1], a.start[1]) THEN 1
    ELSE 0

\* x put into a sorted list behind everything that does not compare greater
RECURSIVE InsertSorted(_, _)
InsertSorted(sorted, x) ==
    With(sorted, LAMBDA list :
        IF list = <<>> THEN <<x>>
        ELSE IF compareEvents(list[Len(list)], x) <= 0 THEN Append(list, x)
        ELSE Append(InsertSorted(SubSeq(list, 1, Len(list) - 1), x),
                    list[Len(list)]))

\* Array.prototype.sort with compareEvents: a stable sort
RECURSIVE SortEvents(_)
SortEvents(list) ==
    With(list, LAMBDA l :
        IF l = <<>> THEN <<>>
        ELSE InsertSorted(SortEvents(SubSeq(l, 1, Len(l) - 1)), l[Len(l)]))

\* list.slice(0, n): a negative n counts from the end
Slice0(list, n) ==
    With(<<list, n>>, LAMBDA v :
        LET stop == IF v[2] < 0
                    THEN (IF Len(v[1]) + v[2] < 0 THEN 0 ELSE Len(v[1]) + v[2])
                    ELSE (IF v[2] > Len(v[1]) THEN Len(v[1]) ELSE v[2])
        IN  SubSeq(v[1], 1, stop))

\* the event getEvents pushes for an item that has start and end elements
eventOf(item) ==
    [start       |-> Some(item.start[1]),
     end         |-> Some(item.end[1]),
     title       |-> item.title,
     description |-> item.description,
     link        |-> item.link]

\* collectEvents without the range test
RECURSIVE collectEvents_noRangeTest(_, _, _)
collectEvents_noRangeTest(items, dataBegin, dataEnd) ==
    With(items, LAMBDA list :
        IF list = <<>> THEN <<>>
        ELSE LET item == list[1]
                 rest == collectEvents_noRangeTest(Tail(list), dataBegin, dataEnd)
             IN  IF Len(item.start) = 0 THEN rest
                 ELSE IF Len(item.end) = 0 THEN rest
                 ELSE <<eventOf(item)>> \o rest)

\* the first loop of getEvents: the items that become events
RECURSIVE collectEvents(_, _, _)
collectEvents(items, dataBegin, dataEnd) ==
    With(items, LAMBDA list :
        IF list = <<>> THEN <<>>
        ELSE LET item == list[1]
                 rest == collectEvents(Tail(list), dataBegin, dataEnd)
             IN  IF Len(item.start) = 0 THEN rest
                 ELSE IF Len(item.end) = 0 THEN rest
                 ELSE IF ~eventWithinDateRange(Some(item.start[1]), Some(item.end[1]),
                                               dataBegin, dataEnd) THEN rest
                 ELSE <<eventOf(item)>> \o rest)

\* the LogError calls of the first loop of getEvents
RECURSIVE collectErrors(_)
collectErrors(items) ==
    With(items, LAMBDA list :
        IF list = <<>> THEN <<>>
        ELSE (IF Len(list[1].start) = 0 \/ Len(list[1].end) = 0 THEN <<>>
              ELSE rangeErrors(Some(list[1].start[1]), Some(list[1].end[1])))
             \o collectErrors(Tail(list)))

numEventsDefault == 2

\* numEventsToDisplay before it is clamped to the number of events
numEventsRequested(dataCount) ==
    IF dataCount = Null THEN numEventsDefault
    ELSE With(ParseInt(dataCount[1]), LAMBDA parsedCount :
             IF parsedCount.kind # "nan" THEN parsedCount.v ELSE numEventsDefault)

\* getEvents(doc, dataBegin, dataEnd, dataCount), doc the items of the document
getEvents(doc, dataBegin, dataEnd, dataCount) ==
    With(collectEvents(doc, dataBegin, dataEnd), LAMBDA collected :
        LET requested == numEventsRequested(dataCount)
            numEventsToDisplay == IF Len(collected) < requested
                                  THEN Len(collected) ELSE requested
        IN  IF Len(collected) = 0 THEN <<>>
            ELSE Slice0(IF Len(collected) > 1 THEN SortEvents(collected) ELSE collected,
                        numEventsToDisplay))

\* toLocaleString("en-US", {month: "short"})
MonthShort(m) ==
    <<"Jan", "Feb", "Mar", "Apr", "May", "Jun",
      "Jul", "Aug", "Sep", "Oct", "Nov", "Dec">>[m]

\* toLocaleString("en-US", {timeStyle: "short"}) of local calendar fields
TimeShort(f) ==
    ToString(IF f.hour % 12 = 0 THEN 12 ELSE f.hour % 12) \o ":"
        \o (IF f.minute < 10 THEN "0" ELSE "") \o ToString(f.minute)
        \o (IF f.hour < 12 THEN " AM" ELSE " PM")

\* the month, day, year and time texts toLocaleString gives for a Date
dateLabels(date) ==
    With(date, LAMBDA d :
        IF d.kind # "fin"
        THEN [month |-> "Invalid Date", day |-> "Invalid Date",
              year |-> "Invalid Date", time |-> "Invalid Date"]
        ELSE With(LocalFields(d), LAMBDA f :
                 [month |-> MonthShort(f.month), day |-> ToString(f.day),
                  year |-> ToString(f.year), time |-> TimeShort(f)]))

\* outStr = startStr; if (startStr !== endStr) outStr += "-" + endStr
compactLabel(startStr, endStr) ==
    IF startStr # endStr THEN startStr \o "-" \o endStr ELSE startStr

\* const showYear = dataShowYear !== null && dataShowYear === "true"
showYearOf(dataShowYear) ==
    dataShowYear # Null /\ dataShowYear[1] = <<"t", "r", "u", "e">>

\* what getHtml appends for one event with start and end
eventBlock(event, dataShowYear) ==
    LET hasTime      == HasT(event.start[1]) /\ HasT(event.end[1])
        startDateStr == IF ~HasT(event.start[1])
                        THEN event.start[1] \o <<0, 0>> ELSE event.start[1]
        endDateStr   == IF ~HasT(event.end[1])
                        THEN event.end[1] \o <<23, 59>> ELSE event.end[1]
    IN  With(<<dateLabels(DateParse(startDateStr)), dateLabels(DateParse(endDateStr))>>,
             LAMBDA labels :
        LET startLabels == labels[1]
            endLabels   == labels[2]
            outTimeStr  == startLabels.time \o " - " \o endLabels.time
        IN  [month       |-> compactLabel(startLabels.month, endLabels.month),
             day         |-> compactLabel(startLabels.day, endLabels.day),
             year        |-> IF showYearOf(dataShowYear)
                             THEN Some(compactLabel(startLabels.year, endLabels.year))
                             ELSE Null,
             title       |-> event.title,
             link        |-> event.link,
             time        |-> IF hasTime THEN Some(outTimeStr) ELSE Null,
             description |-> removeTags(event.description)])

NoEventsText == "There are no events to display."

\* getHtml(events, dataShowYear): the text or the event blocks it returns, or
\* threw when it meets an event without start or end
getHtml(list, dataShowYear) ==
    With(list, LAMBDA l :
        IF Len(l) = 0
        THEN [threw |-> FALSE, text |-> NoEventsText, blocks |-> <<>>]
        ELSE IF \E i \in 1..Len(l) : l[i].start = Null \/ l[i].end = Null
        THEN [threw |-> TRUE, text |-> "", blocks |-> <<>>]
        ELSE [threw |-> FALSE, text |-> "",
              blocks |-> [i \in 1..Len(l) |-> eventBlock(l[i], dataShowYear)]])

-----------------------------------------------------------------------------
(* main() and its catch handler *)

Outcomes == {"ok", "malformed", "networkError", "bodyError", "hang"}

\* the content an element has before main() touches it
OriginalContent == [text |-> "(original content)", blocks |-> <<>>]

\* the URL main() fetches for element i
urlOf(i) ==
    Some(appendToUrl(CALENDAR_RSS_URL, getDataAttr(elements[i]).tags,
                     getDataAttr(elements[i]).categories))

\* the loop head for element i: getDataAttr, appendToUrl, fetch; or the end of
\* the loop
LoopHead(i) ==
    /\ pc' = IF i > Len(elements) THEN "resolved" ELSE "awaitFetch"
    /\ idx' = IF i > Len(elements) THEN idx ELSE i
    /\ fullUrl' = IF i > Len(elements) THEN fullUrl ELSE urlOf(i)

\* main() runs up to its first await
MainStart ==
    /\ pc = "start"
    /\ LoopHead(1)
    /\ UNCHANGED <<tz, bugsnagLoaded, elements, responses, innerHTML, events,
                   errorLog, rejection>>

\* await fetch(url) settles with a response
FetchFulfilled ==
    /\ pc = "awaitFetch"
    /\ responses[idx].outcome \in {"ok", "malformed", "bodyError"}
    /\ pc' = "awaitText"
    /\ UNCHANGED <<tz, bugsnagLoaded, elements, responses, idx, fullUrl,
                   innerHTML, events, errorLog, rejection>>

\* await fetch(url) rejects: main()'s promise rejects
FetchRejected ==
    /\ pc = "awaitFetch"
    /\ responses[idx].outcome = "networkError"
    /\ pc' = "rejected"
    /\ rejection' = Some("TypeError: Failed to fetch")
    /\ UNCHANGED <<tz, bugsnagLoaded, elements, responses, idx, fullUrl,
                   innerHTML, events, errorLog>>

\* the items of the document DOMParser returns: parseFromString never throws;
\* for text that is not well-formed the document holds a parsererror element
\* and, depending on the engine, the items read before the error
ParsedDocs(response) ==
    IF response.outcome = "malformed"
    THEN {SubSeq(response.items, 1, k) : k \in 0..Len(response.items)}
    ELSE {response.items}

\* what the rest of the loop body does with the document: the events, the
\* html, the LogError calls made, and the error thrown (Null if none)
loopBody(doc, data) ==
    With(getEvents(doc, data.begin, data.end, data.count), LAMBDA list :
        With(getHtml(list, data.showYear), LAMBDA html :
            LET calls == collectErrors(doc)
                         \o (IF html.threw THEN <<"Event date is invalid">> ELSE <<>>)
            IN  [list   |-> list,
                 html   |-> [text |-> html.text, blocks |-> html.blocks],
                 calls  |-> IF bugsnagLoaded THEN calls ELSE <<>>,
                 thrown |-> IF calls # <<>> /\ ~bugsnagLoaded
                            THEN Some("ReferenceError: Bugsnag is not defined")
                            ELSE IF html.threw THEN Some("Error: Event date is invalid")
                            ELSE Null]))

\* await response.text() settles: parse, getEvents, getHtml, the assignment to
\* innerHTML, and the next turn of the loop up to its fetch
TextFulfilled ==
    /\ pc = "awaitText"
    /\ responses[idx].outcome \in {"ok", "malformed"}
    /\ \E doc \in ParsedDocs(responses[idx]) :
         \E body \in {loopBody(doc, getDataAttr(elements[idx]))} :
             /\ errorLog' = errorLog \o body.calls
             /\ IF body.thrown # Null
                THEN /\ pc' = "rejected"
                     /\ rejection' = body.thrown
                     /\ UNCHANGED <<idx, fullUrl, innerHTML, events>>
                ELSE /\ events' = [events EXCEPT ![idx] = Some(body.list)]
                     /\ innerHTML' = [innerHTML EXCEPT ![idx] = body.html]
                     /\ LoopHead(idx + 1)
                     /\ UNCHANGED rejection
    /\ UNCHANGED <<tz, bugsnagLoaded, elements, responses>>

\* await response.text() rejects: main()'s promise rejects
TextRejected ==
    /\ pc = "awaitText"
    /\ responses[idx].outcome = "bodyError"
    /\ pc' = "rejected"
    /\ rejection' = Some("TypeError: Failed to read the body")
    /\ UNCHANGED <<tz, bugsnagLoaded, elements, responses, idx, fullUrl,
                   innerHTML, events, errorLog>>

\* main().catch: console.error, LogError(reason), throw reason. LogError reads
\* the global Bugsnag, which does not exist when the script failed to load
CatchHandler ==
    /\ pc = "rejected"
    /\ pc' = "unhandled"
    /\ IF bugsnagLoaded
       THEN /\ errorLog' = Append(errorLog, rejection[1])
            /\ UNCHANGED rejection
       ELSE /\ rejection' = Some("ReferenceError: Bugsnag is not defined")
            /\ UNCHANGED errorLog
    /\ UNCHANGED <<tz, bugsnagLoaded, elements, responses, idx, fullUrl,
                   innerHTML, events>>

-----------------------------------------------------------------------------
(* The pages and feeds main() is run on *)

MaxTargets == 2

MaxItems == 3

MaxCountLen == 2

MaxTermLen == 3

MaxDescLen == 4

SeqsUpTo(S, n) == UNION {[1..k -> S] : k \in 0..n}

NoAttributes ==
    [begin |-> Null, end |-> Null, count |-> Null, tags |-> Null,
     categories |-> Null, showYear |-> Null]

\* a feed item with the given start and end elements; its title tells the
\* items of a feed apart
Item(start, end, title) ==
    [start |-> start, end |-> end, title |-> Some(title),
     description |-> Some(<<"<", "b", ">", "x", "<", "/", "b", ">">>),
     link |-> Some("https://www.ferris.edu/calendar/event")]

Response(outcome, items) == [outcome |-> outcome, items |-> items]

\* the date-only text of the day of a timestamp text
DayOf(text) == SubSeq(text, 1, 3)

SampleFeed == <<Item(Some(<<2025, 1, 5, 10, 0>>), Some(<<2025, 1, 5, 11, 0>>), 1)>>

\* pages of several elements, every fetch with every outcome
PageInputs ==
    /\ tz = 0
    /\ bugsnagLoaded \in BOOLEAN
    /\ \E n \in 0..MaxTargets :
         /\ elements = [i \in 1..n |-> NoAttributes]
         /\ responses \in [1..n -> {Response(o, SampleFeed) : o \in Outcomes}]

TimeZones == {-300, 0, 60}

EventTexts ==
    {<<2025, 1, 4, 20, 0>>, <<2025, 1, 5>>, <<2025, 1, 5, 0, 0>>,
     <<2025, 1, 5, 10, 0>>, <<2025, 1, 5, 23, 59>>, <<2025, 1, 6>>}

InvalidTexts == {<<2025, 13, 1>>, <<>>}

RangeTexts ==
    {<<2025, 1, 5>>, <<2025, 1, 5, 0, 0>>, <<2025, 1, 5, 10, 0>>,
     <<2025, 1, 5, 23, 59>>, <<2025, 13, 1>>}

\* one element with a range, one item, every time zone
RangeInputs ==
    /\ tz \in TimeZones
    /\ bugsnagLoaded = TRUE
    /\ \E b \in {Null} \cup {Some(t) : t \in RangeTexts},
          e \in {Null} \cup {Some(t) : t \in RangeTexts},
          st \in {Null} \cup {Some(t) : t \in EventTexts \cup InvalidTexts},
          en \in {Null} \cup {Some(t) : t \in EventTexts \cup InvalidTexts} :
         /\ elements = <<[NoAttributes EXCEPT !.begin = b, !.end = e]>>
         /\ responses = <<Response("ok", <<Item(st, en, 1)>>)>>

ItemKinds ==
    {<<Some(<<2025, 1, 5>>), Some(<<2025, 1, 5>>)>>,
     <<Some(<<2025, 1, 3, 9, 0>>), Some(<<2025, 1, 3, 10, 0>>)>>,
     <<Some(<<2025, 13, 1>>), Some(<<2025, 1, 5>>)>>,
     <<Some(<<2025, 1, 5, 9, 0>>), Some(<<>>)>>,
     <<Null, Some(<<2025, 1, 5>>)>>,
     <<Some(<<2025, 1, 5>>), Null>>}

\* feeds that mix complete items with items whose start or end is missing or
\* is no timestamp
MixedInputs ==
    /\ tz = 0
    /\ bugsnagLoaded \in BOOLEAN
    /\ \E kinds \in SeqsUpTo(ItemKinds, MaxItems),
          b \in {Null, Some(<<2025, 1, 4>>), Some(<<2025, 13, 1>>)} :
         /\ elements = <<[NoAttributes EXCEPT !.begin = b]>>
         /\ responses = <<Response("ok",
                [i \in 1..Len(kinds) |-> Item(kinds[i][1], kinds[i][2], i)])>>

StartTexts ==
    {<<2025, 1, 5>>, <<2025, 1, 5, 0, 0>>, <<2025, 1, 5, 10, 0>>,
     <<2025, 1, 10>>, <<2025, 1, 20>>}

\* feeds of items in any order of their starts, each ending on its first day
SortInputs ==
    /\ tz = 0
    /\ bugsnagLoaded = TRUE
    /\ \E starts \in SeqsUpTo(StartTexts, MaxItems),
          c \in {Null, Some(<<"1">>), Some(<<"2">>), Some(<<"9">>)} :
         /\ elements = <<[NoAttributes EXCEPT !.count = c]>>
         /\ responses = <<Response("ok",
                [i \in 1..Len(starts) |->
                    Item(Some(starts[i]), Some(DayOf(starts[i])), i)])>>

CountChars == {"-", "0", "1", "3", "a", " "}

\* every data-count text, on feeds of every number of events
CountInputs ==
    /\ tz = 0
    /\ bugsnagLoaded = TRUE
    /\ \E n \in 0..(MaxItems + 1),
          c \in {Null} \cup {Some(t) : t \in SeqsUpTo(CountChars, MaxCountLen)} :
         /\ elements = <<[NoAttributes EXCEPT !.count = c]>>
         /\ responses = <<Response("ok",
                [i \in 1..n |-> Item(Some(<<2025, 2, 20 - i>>),
                                     Some(<<2025, 2, 20 - i>>), i)])>>

FormatTexts ==
    {<<2025, 3, 1, 9, 0>>, <<2025, 3, 2, 17, 0>>, <<2025, 1, 31>>, <<2025, 2, 1>>,
     <<2025, 12, 31, 23, 0>>, <<2026, 1, 1>>, <<2026, 1, 1, 0, 30>>}

ShowYearTexts ==
    {Null, Some(<<>>), Some(<<"t", "r", "u", "e">>), Some(<<"T", "R", "U", "E">>),
     Some(<<"f", "a", "l", "s", "e">>), Some(<<" ", "t", "r", "u", "e">>)}

\* one event of every pair of start and end, every data-show-year text
FormatInputs ==
    /\ tz \in TimeZones
    /\ bugsnagLoaded = TRUE
    /\ \E st \in FormatTexts, en \in FormatTexts, y \in ShowYearTexts :
         /\ elements = <<[NoAttributes EXCEPT !.showYear = y]>>
         /\ responses = <<Response("ok", <<Item(Some(st), Some(en), 1)>>)>>

DescChars == {"<", ">", "a", " ", "\t"}

HelloWorld ==
    <<"<", "p", ">", "H", "e", "l", "l", "o", "&", "n", "b", "s", "p", ";", " ",
      "w", "o", "r", "l", "d", "<", "/", "p", ">">>

\* one event of every description
DescriptionInputs ==
    /\ tz = 0
    /\ bugsnagLoaded = TRUE
    /\ \E d \in {Null, Some(HelloWorld)}
                \cup {Some(t) : t \in SeqsUpTo(DescChars, MaxDescLen)} :
         /\ elements = <<NoAttributes>>
         /\ responses = <<Response("ok",
                <<[SampleFeed[1] EXCEPT !.description = d]>>)>>

TermChars == {"a", " ", ","}

MusicArt == <<"m", "u", "s", "i", "c", ",", " ", "a", "r", "t">>

FoodFun == <<"f", "o", "o", "d", ",", " ", " ", "f", "u", "n">>

TermTexts ==
    {Null, Some(MusicArt), Some(FoodFun)}
        \cup {Some(t) : t \in SeqsUpTo(TermChars, MaxTermLen)}

\* every data-tags and data-categories text
UrlInputs ==
    /\ tz = 0
    /\ bugsnagLoaded = TRUE
    /\ \E t \in TermTexts, c \in TermTexts :
         /\ elements = <<[NoAttributes EXCEPT !.tags = t, !.categories = c]>>
         /\ responses = <<Response("ok", SampleFeed)>>

\* main() has not started
Fresh ==
    /\ pc = "start"
    /\ idx = 0
    /\ fullUrl = Null
    /\ innerHTML = [i \in 1..Len(elements) |-> OriginalContent]
    /\ events = [i \in 1..Len(elements) |-> Null]
    /\ errorLog = <<>>
    /\ rejection = Null

Init ==
    \/ PageInputs /\ Fresh
    \/ RangeInputs /\ Fresh
    \/ MixedInputs /\ Fresh
    \/ SortInputs /\ Fresh
    \/ CountInputs /\ Fresh
    \/ FormatInputs /\ Fresh
    \/ DescriptionInputs /\ Fresh
    \/ UrlInputs /\ Fresh

Next ==
    \/ MainStart
    \/ FetchFulfilled
    \/ FetchRejected
    \/ TextFulfilled
    \/ TextRejected
    \/ CatchHandler

Spec == Init /\ [][Next]_vars

-----------------------------------------------------------------------------
(* Vocabulary of the properties *)

Targets == 1..Len(elements)

\* element i has been rendered: getEvents and getHtml ran and innerHTML was set
Rendered(i) == events[i] # Null

\* the for-loop is past element i, or main() has ended
CycleOver(i) == idx > i \/ (idx = i /\ pc \in {"resolved", "unhandled"})

\* the minutes from 1970-01-01T00:00 to the wall-clock time a text names, a
\* text without a time of day taken as the given time of that day
WallClock(text, h, mi) ==
    DaysFromCivil(text[1], text[2], text[3]) * 1440
        + (IF Len(text) = 5 THEN text[4] * 60 + text[5] ELSE h * 60 + mi)

\* the items of a feed that have both elements, by position
Complete(items) == {k \in 1..Len(items) : items[k].start # Null /\ items[k].end # Null}

\* the items of the feed of element i that pass the filter of getEvents
Survivors(i) ==
    {k \in Complete(responses[i].items) :
        eventWithinDateRange(responses[i].items[k].start, responses[i].items[k].end,
                             getDataAttr(elements[i]).begin,
                             getDataAttr(elements[i]).end)}

-----------------------------------------------------------------------------
(* C1 *)

\* the overlap the specification describes, on wall-clock times
DescribedOverlap(st, en, b, e) ==
    /\ e # Null => WallClock(st, 0, 0) <= WallClock(e[1], 23, 59)
    /\ b # Null => WallClock(b[1], 0, 0) <= WallClock(en, 23, 59)

\* C1: an item is selected exactly when eventStart <= rangeEnd and
\* rangeBegin <= eventEnd, every text without a time of day normalized (as a
\* start to 00:00, as an end to 23:59 of its day) and an absent bound
\* unbounded. Stated for a feed of one item with valid texts and a valid range.
C1_OverlapAsDescribed ==
    \A i \in Targets :
        LET items == responses[i].items
            data  == getDataAttr(elements[i])
        IN  ( /\ Rendered(i)
              /\ responses[i].outcome = "ok"
              /\ Len(items) = 1
              /\ 1 \in Complete(items)
              /\ IsValidText(items[1].start[1])
              /\ IsValidText(items[1].end[1])
              /\ data.begin # Null => IsValidText(data.begin[1])
              /\ data.end # Null => IsValidText(data.end[1]) )
            => ( Len(events[i][1]) = 1
                 <=> DescribedOverlap(items[1].start[1], items[1].end[1],
                                      data.begin, data.end) )

-----------------------------------------------------------------------------
(* C2 *)

\* the instant of the start of item k of the feed of element i
StartInstant(i, k) ==
    LET text == responses[i].items[k].start[1]
    IN  DateParse(IF HasT(text) THEN text ELSE text \o <<0, 0>>).v

StartText(i, k) == responses[i].items[k].start[1]

\* the number of survivors that come before k when the survivors are ordered
\* by before(j, k), ties by position in the feed
RankIn(i, k, before(_, _)) ==
    Cardinality({j \in Survivors(i) :
                    before(j, k) \/ (~before(k, j) /\ j < k)})

\* the events of element i are the first ones of the survivors ranked by before
PrefixOfRanking(i, before(_, _)) ==
    \A r \in 1..Len(events[i][1]) :
        \E k \in Survivors(i) :
            /\ RankIn(i, k, before) = r - 1
            /\ events[i][1][r] = eventOf(responses[i].items[k])

\* C2 as stated: the events returned are in ascending order of the instant of
\* their start, events of equal instant in feed order, and are a prefix of
\* all the survivors in that order.
C2_OrderedByInstant ==
    \A i \in Targets :
        (Rendered(i) /\ responses[i].outcome = "ok")
            => LET before(j, k) == StartInstant(i, j) < StartInstant(i, k)
               IN  PrefixOfRanking(i, before)

\* C2 amended: the events returned are in ascending order of the text of
\* their start (compared as strings), events of equal text in feed order, and
\* are a prefix of all the survivors in that order; their instants never
\* decrease.
C2_OrderedByText ==
    \A i \in Targets :
        (Rendered(i) /\ responses[i].outcome = "ok")
            => /\ LET before(j, k) == StrLess(StartText(i, j), StartText(i, k))
                  IN  PrefixOfRanking(i, before)
               /\ \A r \in 1..(Len(events[i][1]) - 1) :
                      LET a == events[i][1][r].start[1]
                          b == events[i][1][r + 1].start[1]
                      IN  WallClock(a, 0, 0) <= WallClock(b, 0, 0)

\* starts 2025-01-10, 2025-01-05, 2025-01-20 and count 2 gave the second item,
\* then the first
C2_Witness ==
    /\ Len(elements) = 1
    /\ Rendered(1)
    /\ elements[1].count = Some(<<"2">>)
    /\ Len(responses[1].items) = 3
    /\ StartText(1, 1) = <<2025, 1, 10>>
    /\ StartText(1, 2) = <<2025, 1, 5>>
    /\ StartText(1, 3) = <<2025, 1, 20>>
    /\ events[1][1] = <<eventOf(responses[1].items[2]), eventOf(responses[1].items[1])>>
    /\ events[1][1][1].title = Some(2)
    /\ events[1][1][2].title = Some(1)

-----------------------------------------------------------------------------
(* C3 *)

\* the count the specification describes: the count supplied when it is a
\* non-negative integer, 2 otherwise
DescribedCount(count) ==
    IF isNullOrEmpty(count) THEN 2
    ELSE IF ParseInt(count[1]).kind = "fin" /\ ParseInt(count[1]).v >= 0
         THEN ParseInt(count[1]).v
         ELSE 2

\* C3: getEvents returns min(maxCount, n) of the n surviving events, maxCount
\* being the count supplied, or 2 when it is absent or no non-negative integer.
C3_CountAsDescribed ==
    \A i \in Targets :
        (Rendered(i) /\ responses[i].outcome = "ok")
            => LET n == Cardinality(Survivors(i))
                   c == DescribedCount(elements[i].count)
               IN  Len(events[i][1]) = IF c < n THEN c ELSE n

-----------------------------------------------------------------------------
(* C4 *)

\* the text, taken as a start (end) of an event, is no valid instant
Unparseable(text, h, mi) ==
    DateParse(IF HasT(text) THEN text ELSE text \o <<h, mi>>).kind = "nan"

\* the items that have a start and an end of which one does not parse
UnparseableItems(items) ==
    {k \in Complete(items) :
        Unparseable(items[k].start[1], 0, 0) \/ Unparseable(items[k].end[1], 23, 59)}

\* C4 as stated: a cycle whose feed holds an item with start and end present,
\* one of them unparseable, does not render: it ends in an error that is
\* reported to the error sink.
C4_FatalWhenUnparseable ==
    \A i \in Targets :
        (responses[i].outcome = "ok" /\ UnparseableItems(responses[i].items) # {})
            => /\ ~Rendered(i)
               /\ (CycleOver(i) /\ bugsnagLoaded) => errorLog # <<>>

\* C4 amended: an item with start and end present, one of them unparseable,
\* is left out by the range test (every comparison with NaN is false); nothing
\* is reported or raised on its account, and the cycle renders the other items.
C4_DroppedWhenUnparseable ==
    \A i \in Targets :
        (CycleOver(i) /\ \A j \in Targets : responses[j].outcome = "ok")
            => /\ Rendered(i)
               /\ errorLog = <<>>
               /\ rejection = Null
               /\ \A k \in UnparseableItems(responses[i].items) :
                      /\ k \notin Survivors(i)
                      /\ \A r \in 1..Len(events[i][1]) :
                             events[i][1][r].title # responses[i].items[k].title
               /\ \A r \in 1..Len(innerHTML[i].blocks) :
                      /\ innerHTML[i].blocks[r].month # "Invalid Date"
                      /\ innerHTML[i].blocks[r].day # "Invalid Date"
               /\ (getDataAttr(elements[i]).begin = Null
                      /\ getDataAttr(elements[i]).end = Null)
                      => Survivors(i) = Complete(responses[i].items)
                                            \ UnparseableItems(responses[i].items)

\* a feed with an unparseable item and a good one was rendered
C4_Witness ==
    /\ Len(elements) = 1
    /\ pc = "resolved"
    /\ UnparseableItems(responses[1].items) # {}
    /\ Rendered(1)
    /\ Len(events[1][1]) >= 1

-----------------------------------------------------------------------------
(* C5 *)

\* main() and its catch handler have ended: no continuation is left to run
MainEnded == pc \in {"resolved", "unhandled"}

\* C5: every element whose own fetch succeeds gets rendered, whatever happens
\* to the fetches of the other elements: once main() has ended, each of them
\* has been rendered.
C5_TargetsIndependent ==
    MainEnded => \A i \in Targets : responses[i].outcome = "ok" => Rendered(i)

-----------------------------------------------------------------------------
(* C6 *)

\* C6: when the cycle of an element fails (the fetch fails, the body cannot be
\* read, or the text is not well-formed), the element keeps its content,
\* main() ends rejected, and the failure reaches the error sink.
C6_FailureLeavesElement ==
    \A i \in Targets :
        (responses[i].outcome \in {"networkError", "bodyError", "malformed"}
            /\ CycleOver(i)
            /\ \A j \in 1..(i - 1) : responses[j].outcome = "ok")
            => /\ innerHTML[i] = OriginalContent
               /\ rejection # Null
               /\ bugsnagLoaded => errorLog # <<>>

-----------------------------------------------------------------------------
(* C7 *)

\* the label the specification describes for two values
DescribedLabel(s, e) == IF s = e THEN s ELSE s \o "-" \o e

\* C7: the month, day and year labels of every event rendered are each the
\* start's value alone when start and end agree in it, and "<start>-<end>"
\* otherwise, the values being those of the texts of the feed; the year label
\* is there exactly when data-show-year is "true".
C7_Labels ==
    \A i \in Targets :
        Rendered(i) =>
            /\ Len(innerHTML[i].blocks) = Len(events[i][1])
            /\ \A r \in 1..Len(events[i][1]) :
                   LET st    == events[i][1][r].start[1]
                       en    == events[i][1][r].end[1]
                       block == innerHTML[i].blocks[r]
                   IN  /\ block.month =
                              DescribedLabel(MonthShort(st[2]), MonthShort(en[2]))
                       /\ block.day = DescribedLabel(ToString(st[3]), ToString(en[3]))
                       /\ (block.year # Null)
                              <=> (elements[i].showYear = Some(<<"t", "r", "u", "e">>))
                       /\ block.year # Null =>
                              block.year[1] =
                                  DescribedLabel(ToString(st[1]), ToString(en[1]))

\* an event from 2025 to 2026 was rendered with the year label "2025-2026"
C7_Witness ==
    \E i \in Targets :
        /\ Rendered(i)
        /\ Len(innerHTML[i].blocks) = 1
        /\ innerHTML[i].blocks[1].year = Some("2025-2026")
        /\ innerHTML[i].blocks[1].month = "Dec-Jan"
        /\ innerHTML[i].blocks[1].day = "31-1"
        /\ tz # 0

-----------------------------------------------------------------------------
(* C8 *)

HelloAmpWorld ==
    <<"H", "e", "l", "l", "o", "&", "n", "b", "s", "p", ";", " ",
      "w", "o", "r", "l", "d">>

\* the description element i shows for its first event
ShownDescription(i) == innerHTML[i].blocks[1].description

\* the description the feed of element i gives for the event shown first
FeedDescription(i) ==
    LET k == CHOOSE k \in 1..Len(responses[i].items) :
                 responses[i].items[k].title = innerHTML[i].blocks[1].title
    IN  responses[i].items[k].description

\* a is what is left of b after deleting some of its characters
RECURSIVE IsSubsequence(_, _)
IsSubsequence(a, b) ==
    IF a = <<>> THEN TRUE
    ELSE IF b = <<>> THEN FALSE
    ELSE IF a[1] = b[1] THEN IsSubsequence(Tail(a), Tail(b))
    ELSE IsSubsequence(a, Tail(b))

NonBlank(s) == SelectSeq(s, LAMBDA c : c # " ")

HasBlock(i) == Rendered(i) /\ responses[i].outcome = "ok" /\ Len(innerHTML[i].blocks) >= 1

\* C8 as stated: the description shown has no run of white space longer than
\* one character and no white space at its ends, and "<p>Hello&nbsp; world</p>"
\* is shown as "Hello world".
C8_HelloWorld ==
    \A i \in Targets :
        HasBlock(i) =>
            LET out == ShownDescription(i)
            IN  /\ \A p \in 1..(Len(out) - 1) : ~(IsWhite(out[p]) /\ IsWhite(out[p + 1]))
                /\ out # <<>> => (~IsWhite(out[1]) /\ ~IsWhite(out[Len(out)]))
                /\ FeedDescription(i) = Some(HelloWorld)
                       => out = <<"H", "e", "l", "l", "o", " ", "w", "o", "r", "l", "d">>

\* C8 amended: the description shown holds no tag (no '<' with a '>' two or
\* more characters later), no two ' ' in a row and no white space at its ends;
\* its characters other than ' ' are characters of the feed's description, in
\* their order; an absent description is shown as the empty text; entities are
\* kept, so "<p>Hello&nbsp; world</p>" is shown as "Hello&nbsp; world".
C8_RemoveTags ==
    \A i \in Targets :
        HasBlock(i) =>
            LET out == ShownDescription(i)
                in  == FeedDescription(i)
            IN  /\ \A p \in 1..Len(out), q \in 1..Len(out) :
                       ~(out[p] = "<" /\ out[q] = ">" /\ q >= p + 2)
                /\ \A p \in 1..(Len(out) - 1) : ~(out[p] = " " /\ out[p + 1] = " ")
                /\ out # <<>> => (~IsWhite(out[1]) /\ ~IsWhite(out[Len(out)]))
                /\ in = Null => out = <<>>
                /\ in # Null => IsSubsequence(NonBlank(out), in[1])
                /\ (in # Null /\ \A p \in 1..Len(in[1]) : in[1][p] \notin {"<", " ", "\t"})
                       => out = in[1]
                /\ in = Some(HelloWorld) => out = HelloAmpWorld

\* "<p>Hello&nbsp; world</p>" was rendered
C8_Witness ==
    \E i \in Targets :
        /\ HasBlock(i)
        /\ FeedDescription(i) = Some(HelloWorld)
        /\ ShownDescription(i) = HelloAmpWorld

-----------------------------------------------------------------------------
(* C9 *)

\* the terms the specification describes for a text: the parts between the
\* commas, each without the white space at its ends and with '+' for every
\* ' ' inside it
DescribedTerms(text) ==
    IF isNullOrEmpty(text) THEN <<>>
    ELSE LET parts == Split(text[1])
         IN  [p \in 1..Len(parts) |-> SpacesToPlus(Trim(parts[p]))]

\* the URL with "&tag=<term>" for every term
RECURSIVE WithTerms(_, _)
WithTerms(url, terms) ==
    IF terms = <<>> THEN url
    ELSE WithTerms(url \o <<"&", "t", "a", "g", "=">> \o terms[1], Tail(terms))

\* C9: the URL fetched is the base URL with one "&tag=<term>" for every term
\* of the tags and then of the categories, each term without white space at
\* its ends and with '+' for the white space inside it.
C9_UrlAsDescribed ==
    (pc # "start" /\ idx >= 1) =>
        fullUrl = Some(WithTerms(WithTerms(CALENDAR_RSS_URL,
                                           DescribedTerms(elements[idx].tags)),
                                 DescribedTerms(elements[idx].categories)))

-----------------------------------------------------------------------------
(* C10 *)

\* C10: every event getEvents returns has a start and an end, both valid
\* instants once a text without a time of day is completed, and comes from an
\* item of the feed that has both elements; getHtml never takes its "Event
\* date is invalid" path and never formats an invalid date.
C10_EventsValid ==
    /\ rejection # Some("Error: Event date is invalid")
    /\ \A m \in 1..Len(errorLog) : errorLog[m] # "Event date is invalid"
    /\ \A i \in Targets :
           Rendered(i) =>
               /\ \A r \in 1..Len(events[i][1]) :
                      LET event == events[i][1][r]
                      IN  /\ event.start # Null
                          /\ event.end # Null
                          /\ ~Unparseable(event.start[1], 0, 0)
                          /\ ~Unparseable(event.end[1], 23, 59)
                          /\ \E k \in Complete(responses[i].items) :
                                 event = eventOf(responses[i].items[k])
               /\ \A r \in 1..Len(innerHTML[i].blocks) :
                      LET block == innerHTML[i].blocks[r]
                      IN  /\ block.month # "Invalid Date"
                          /\ block.day # "Invalid Date"
                          /\ block.year # Some("Invalid Date")
                          /\ block.time # Some("Invalid Date - Invalid Date")

\* a feed with items lacking an element or holding no timestamp, under a
\* bounded range, was rendered with the events that are left
C10_Witness ==
    /\ Len(elements) = 1
    /\ Rendered(1)
    /\ elements[1].begin # Null
    /\ Complete(responses[1].items) # 1..Len(responses[1].items)
    /\ UnparseableItems(responses[1].items) # {}
    /\ Len(events[1][1]) = 1

====
